---- MODULE Spec2Model ----
(***************************************************************************)
(* Weekend-working pay impact calculator: the Monte-Carlo shift-allocation *)
(* simulator (src/app.py), the pay projection (src/app.py) and the rUK tax *)
(* model (src/tax_uk.py).                                                  *)
(*                                                                         *)
(* Numbers.  The program computes in binary floating point; the model      *)
(* computes the same expressions exactly, on integers in fixed units:      *)
(*   - staff weights are whole numbers;                                    *)
(*   - a trial outcome (a mean over the 12 months) is kept in twelfths;    *)
(*   - tax amounts are kept in half pounds, tax due in 1/100 half pounds;  *)
(*   - pay amounts are kept in the units named with the pay projection.    *)
(* Rounding of the floating point operations is not modelled.              *)
(***************************************************************************)
EXTENDS Integers, Sequences, FiniteSets, TLC

\* ------------------------------------------------------------------ bounds
MaxStaff == 2
MaxRequired == 2
MaxWeight == 2
MaxSims == 2
MaxSeed == 1

\* ------------------------------------------------------- program constants
months_per_run == 12
MaxCapPerPerson == 4
DefaultSeed == 42

PersonTypes == {"Average sharer", "Keen (picks up extras)", "Opt-out (does none)"}

Min(a, b) == IF a <= b THEN a ELSE b
Max(a, b) == IF a >= b THEN a ELSE b

Staff(n) == 0 .. (n - 1)

RECURSIVE SumOver(_, _)
SumOver(f, S) ==
    IF S = {} THEN 0
    ELSE LET x == CHOOSE y \in S : TRUE IN f[x] + SumOver(f, S \ {x})

\* ---------------------------------------------------------------- simulator
VARIABLES
    args,                       \* the caller's arguments, as passed
    n_staff, staff_required_per_sunday, keen_weight, normal_weight, n_sims, seed,
    opt_out_count, keen_count, person_type,     \* parameters the body reassigns
    rng, total_shifts, target_index, weights, cap_per_person,
    results, sim, monthly_counts, m, counts, shift,
    pc,
    call, first_results,        \* the caller repeating the call (determinism)
    \* tax model: the two incomes and the pension deduction the functions are
    \* applied to (whole pounds), and what they returned
    tax_gross, tax_pension, tax_out, pa_out,
    \* pay projection: the scenario and the returned breakdown
    pay_in, pay_out

taxvars == <<tax_gross, tax_pension, tax_out, pa_out>>
payvars == <<pay_in, pay_out>>

simvars == <<args, n_staff, staff_required_per_sunday, keen_weight, normal_weight,
             n_sims, seed, opt_out_count, keen_count, person_type, rng,
             total_shifts, target_index, weights, cap_per_person, results, sim,
             monthly_counts, m, counts, shift, pc, call, first_results>>

\* what no step of the simulator writes: its read-only parameters, and the
\* variables of the tax model and the pay projection
fixed == <<args, n_staff, staff_required_per_sunday, keen_weight, normal_weight,
           n_sims, seed, taxvars, payvars>>

Unbound == -1

\* int(np.round(staff_required_per_sunday * (52 / 12))): round half to even of 13R/3
TotalShifts(R) ==
    LET q == (13 * R) \div 3
        r == (13 * R) % 3
    IN  IF 2 * r < 3 THEN q
        ELSE IF 2 * r > 3 THEN q + 1
        ELSE IF q % 2 = 0 THEN q ELSE q + 1

\* ClampOptOut without the upper clamp to n_staff
ClampOptOutNoMin(opt, n) == IF opt < 0 THEN 0 ELSE opt

\* if opt_out_count < 0: opt_out_count = 0; opt_out_count = min(opt_out_count, n_staff)
ClampOptOut(opt, n) == Min(IF opt < 0 THEN 0 ELSE opt, n)

\* keen_count = min(max(0, keen_count), remaining)
ClampKeen(keen, remaining) == Min(Max(0, keen), remaining)

\* ResolveTarget with the average branch preferring a keen worker
ResolveTargetKeenFirst(ptype, opt, keen, remaining) ==
    LET p1 == IF ptype = "Opt-out (does none)" /\ opt = 0 THEN "Average sharer" ELSE ptype
        t1 == IF ptype = "Opt-out (does none)" /\ opt # 0 THEN 0 ELSE Unbound
        p2 == IF p1 = "Keen (picks up extras)" /\ keen = 0 THEN "Average sharer" ELSE p1
        t2 == IF p1 = "Keen (picks up extras)" /\ keen # 0 THEN opt ELSE t1
        t3 == IF p2 = "Average sharer"
              THEN IF keen > 0 THEN opt
                   ELSE IF remaining - keen > 0 THEN opt + keen
                   ELSE 0
              ELSE t2
    IN  [person_type |-> p2, target_index |-> t3]

\* The fallback chain that picks the representative: the three ifs in order,
\* each reading the person_type the one before may have reassigned.
ResolveTarget(ptype, opt, keen, remaining) ==
    LET p1 == IF ptype = "Opt-out (does none)" /\ opt = 0 THEN "Average sharer" ELSE ptype
        t1 == IF ptype = "Opt-out (does none)" /\ opt # 0 THEN 0 ELSE Unbound
        p2 == IF p1 = "Keen (picks up extras)" /\ keen = 0 THEN "Average sharer" ELSE p1
        t2 == IF p1 = "Keen (picks up extras)" /\ keen # 0 THEN opt ELSE t1
        t3 == IF p2 = "Average sharer"
              THEN IF remaining - keen > 0 THEN opt + keen
                   ELSE IF keen > 0 THEN opt
                   ELSE 0
              ELSE t2
    IN  [person_type |-> p2, target_index |-> t3]

\* WeightVector with the normal weight written from index keen_count on
WeightVectorNoOffset(n, opt, keen, kw, nw) ==
    [i \in Staff(n) |->
        IF i >= opt /\ i < opt + keen THEN kw
        ELSE IF i >= keen THEN nw
        ELSE 0]

\* weights = zeros; weights[opt:opt+keen] = keen_weight; weights[opt+keen:] = normal_weight
WeightVector(n, opt, keen, kw, nw) ==
    [i \in Staff(n) |->
        IF i < opt THEN 0
        ELSE IF i < opt + keen THEN kw
        ELSE nw]

\* cap_per_person = min(total_shifts, 4)
CapPerPerson(total) == Min(total, MaxCapPerPerson)

\* Eligible without the cap test
EligibleNoCap(w, c, cap) == {i \in DOMAIN w : w[i] > 0}

\* eligible = (weights > 0) & (counts < cap_per_person)
Eligible(w, c, cap) == {i \in DOMAIN w : w[i] > 0 /\ c[i] < cap}

\* eligible = weights > 0
Weighted(w) == {i \in DOMAIN w : w[i] > 0}

\* EligibleNow without the relaxation of the cap
EligibleNowNoRelax(w, c, cap) == Eligible(w, c, cap)

\* the eligible set an iteration of the shift loop samples from: capped, or
\* relaxed to every weighted worker when the capped set is empty
EligibleNow(w, c, cap) ==
    IF Eligible(w, c, cap) # {} THEN Eligible(w, c, cap) ELSE Weighted(w)

\* np.random.default_rng(seed) and the generator's step: a small congruential
\* generator stands for PCG64; random() is its state over RngModulus
RngModulus == 251
RngMultiplier == 6
RngIncrement == 3
\* default_rng seeded from ambient state instead of the seed parameter
default_rng_ambient(s) == call % RngModulus

default_rng(s) == s % RngModulus
Advance(g) == (RngMultiplier * g + RngIncrement) % RngModulus

\* probs = weights[eligible] / weights[eligible].sum(): the candidates that
\* rng.choice can return are those of positive probability
Support(cands, w) == {k \in cands : w[k] > 0 /\ SumOver(w, cands) > 0}

\* rng.choice(np.where(eligible)[0], p=probs) as a function of the generator:
\* the first candidate, in index order, whose cumulative probability exceeds
\* the uniform draw g / RngModulus
Choice(cands, w, g) ==
    LET total == SumOver(w, cands)
        cum(k) == SumOver(w, {j \in cands : j <= k})
    IN  CHOOSE k \in cands :
            /\ cum(k) * RngModulus > g * total
            /\ \A j \in cands : j < k => cum(j) * RngModulus <= g * total

\* monthly_counts is read only by np.mean: the model keeps its length and sum
EmptyList == [len |-> 0, sum |-> 0]
ListAppend(l, x) == [len |-> l.len + 1, sum |-> l.sum + x]
\* float(np.mean(monthly_counts)), in twelfths
MeanTwelfths(l) == (12 * l.sum) \div l.len

\* opt-out and keen counts within the ranges the pool allows
ValidRange(o, k, n) == o >= 0 /\ o <= n /\ k >= 0 /\ o + k <= n

\* the pool has no worker of positive weight, or the representative is an
\* opt-out worker: every trial outcome is then claimed to be 0
FixedOutcome(n, o, k, kw, nw, p) ==
    LET opt == ClampOptOut(o, n)
        keen == ClampKeen(k, n - opt)
    IN  \/ Weighted(WeightVector(n, opt, keen, kw, nw)) = {}
        \/ ResolveTarget(p, opt, keen, n - opt).target_index < opt

\* The arguments of a call.  Every pool within range is drawn with every
\* quota; out-of-range counts are drawn with the quotas of at most one
\* required worker; runs of more than free_trials trials are drawn where the
\* outcome does not depend on the draws.
ParamInit(free_trials) ==
    /\ n_staff \in 1 .. MaxStaff
    /\ staff_required_per_sunday \in 0 .. MaxRequired
    /\ keen_weight \in 0 .. MaxWeight
    /\ normal_weight \in 0 .. 1
    /\ n_sims \in 0 .. MaxSims
    /\ \E o \in -1 .. (n_staff + 1), k \in -1 .. (n_staff + 1), p \in PersonTypes :
          /\ ValidRange(o, k, n_staff) \/ staff_required_per_sunday <= 1
          /\ n_sims <= free_trials \/ FixedOutcome(n_staff, o, k, keen_weight, normal_weight, p)
          /\ args = [opt_out_count |-> o, keen_count |-> k, person_type |-> p]
          /\ opt_out_count = o
          /\ keen_count = k
          /\ person_type = p
    /\ rng = Unbound
    /\ total_shifts = Unbound
    /\ target_index = Unbound
    /\ weights = <<>>
    /\ cap_per_person = Unbound
    /\ results = <<>>
    /\ sim = 0
    /\ monthly_counts = EmptyList
    /\ m = 0
    /\ counts = <<>>
    /\ shift = 0
    /\ pc = "enter"
    /\ call = 1
    /\ first_results = <<>>

\* lines 173-175
Enter ==
    /\ pc = "enter"
    /\ rng' = default_rng(seed)
    /\ total_shifts' = TotalShifts(staff_required_per_sunday)
    /\ pc' = "clamp"
    /\ UNCHANGED <<fixed, opt_out_count, keen_count, person_type, target_index,
                   weights, cap_per_person, results, sim, monthly_counts, m,
                   counts, shift, call, first_results>>

\* lines 177-182
ClampCounts ==
    /\ pc = "clamp"
    /\ opt_out_count' = ClampOptOut(opt_out_count, n_staff)
    /\ keen_count' = ClampKeen(keen_count, n_staff - opt_out_count')
    /\ pc' = "pick"
    /\ UNCHANGED <<fixed, person_type, rng, total_shifts, target_index, weights,
                   cap_per_person, results, sim, monthly_counts, m, counts, shift,
                   call, first_results>>

\* lines 184-207
PickTarget ==
    /\ pc = "pick"
    /\ LET r == ResolveTarget(person_type, opt_out_count, keen_count,
                              n_staff - opt_out_count)
       IN  /\ person_type' = r.person_type
           /\ target_index' = r.target_index
    /\ pc' = "weights"
    /\ UNCHANGED <<fixed, opt_out_count, keen_count, rng, total_shifts, weights,
                   cap_per_person, results, sim, monthly_counts, m, counts, shift,
                   call, first_results>>

\* lines 209-223
BuildWeights ==
    /\ pc = "weights"
    /\ weights' = WeightVector(n_staff, opt_out_count, keen_count, keen_weight,
                               normal_weight)
    /\ cap_per_person' = CapPerPerson(total_shifts)
    /\ results' = [i \in 1 .. n_sims |-> 0]
    /\ sim' = 0
    /\ pc' = "trial"
    /\ UNCHANGED <<fixed, opt_out_count, keen_count, person_type, rng,
                   total_shifts, target_index, monthly_counts, m, counts, shift,
                   call, first_results>>

\* lines 225-226: the next trial starts
BeginTrial ==
    /\ pc = "trial"
    /\ sim < n_sims
    /\ monthly_counts' = EmptyList
    /\ m' = 0
    /\ pc' = "month"
    /\ UNCHANGED <<fixed, opt_out_count, keen_count, person_type, rng,
                   total_shifts, target_index, weights, cap_per_person, results,
                   sim, counts, shift, call, first_results>>

\* lines 228-229: the next month starts
BeginMonth ==
    /\ pc = "month"
    /\ m < months_per_run
    /\ counts' = [i \in Staff(n_staff) |-> 0]
    /\ shift' = 0
    /\ pc' = "shift"
    /\ UNCHANGED <<fixed, opt_out_count, keen_count, person_type, rng,
                   total_shifts, target_index, weights, cap_per_person, results,
                   sim, monthly_counts, m, call, first_results>>

\* lines 231-241: one iteration of the shift loop that allocates a shift to
\* chosen_local, the worker rng.choice returned
AllocateShift(chosen_local) ==
    /\ pc = "shift"
    /\ shift < total_shifts
    /\ chosen_local \in EligibleNow(weights, counts, cap_per_person)
    /\ counts' = [counts EXCEPT ![chosen_local] = @ + 1]
    /\ shift' = shift + 1
    /\ UNCHANGED <<fixed, opt_out_count, keen_count, person_type, total_shifts,
                   target_index, weights, cap_per_person, results, sim,
                   monthly_counts, m, pc, call, first_results>>

\* the draw, for a generator in any state: any candidate of positive probability
DrawAny ==
    /\ pc = "shift"
    /\ \E c \in Support(EligibleNow(weights, counts, cap_per_person), weights) :
          AllocateShift(c) /\ UNCHANGED rng

\* the draw, for the generator seeded at line 173
DrawSeeded ==
    /\ pc = "shift"
    /\ EligibleNow(weights, counts, cap_per_person) # {}
    /\ AllocateShift(Choice(EligibleNow(weights, counts, cap_per_person), weights, rng))
    /\ rng' = Advance(rng)

\* StopEarly without the inner test: rng.choice raises on an empty candidate set
StopEarlyRaises ==
    /\ pc = "shift"
    /\ shift < total_shifts
    /\ EligibleNow(weights, counts, cap_per_person) = {}
    /\ pc' = "error"
    /\ UNCHANGED <<fixed, opt_out_count, keen_count, person_type, rng,
                   total_shifts, target_index, weights, cap_per_person, results,
                   sim, monthly_counts, m, counts, shift, call, first_results>>

\* lines 232-237: nobody has positive weight, the shift loop breaks
StopEarly ==
    /\ pc = "shift"
    /\ shift < total_shifts
    /\ EligibleNow(weights, counts, cap_per_person) = {}
    /\ pc' = "month_end"
    /\ UNCHANGED <<fixed, opt_out_count, keen_count, person_type, rng,
                   total_shifts, target_index, weights, cap_per_person, results,
                   sim, monthly_counts, m, counts, shift, call, first_results>>

\* ShiftsDone with the loop one iteration short
ShiftsDoneOneShort ==
    /\ pc = "shift"
    /\ shift >= total_shifts - 1
    /\ pc' = "month_end"
    /\ UNCHANGED <<fixed, opt_out_count, keen_count, person_type, rng,
                   total_shifts, target_index, weights, cap_per_person, results,
                   sim, monthly_counts, m, counts, shift, call, first_results>>

\* line 231: the shift loop is exhausted
ShiftsDone ==
    /\ pc = "shift"
    /\ shift >= total_shifts
    /\ pc' = "month_end"
    /\ UNCHANGED <<fixed, opt_out_count, keen_count, person_type, rng,
                   total_shifts, target_index, weights, cap_per_person, results,
                   sim, monthly_counts, m, counts, shift, call, first_results>>

\* line 243
EndMonth ==
    /\ pc = "month_end"
    /\ monthly_counts' = ListAppend(monthly_counts, counts[target_index])
    /\ m' = m + 1
    /\ pc' = "month"
    /\ UNCHANGED <<fixed, opt_out_count, keen_count, person_type, rng,
                   total_shifts, target_index, weights, cap_per_person, results,
                   sim, counts, shift, call, first_results>>

\* lines 245-246
EndTrial ==
    /\ pc = "month"
    /\ m >= months_per_run
    /\ results' = [results EXCEPT ![sim + 1] = MeanTwelfths(monthly_counts)]
    /\ sim' = sim + 1
    /\ pc' = "trial"
    /\ UNCHANGED <<fixed, opt_out_count, keen_count, person_type, rng,
                   total_shifts, target_index, weights, cap_per_person,
                   monthly_counts, m, counts, shift, call, first_results>>

\* line 248
Return ==
    /\ pc = "trial"
    /\ sim >= n_sims
    /\ pc' = "done"
    /\ UNCHANGED <<fixed, opt_out_count, keen_count, person_type, rng,
                   total_shifts, target_index, weights, cap_per_person, results,
                   sim, monthly_counts, m, counts, shift, call, first_results>>

\* the tax model and the pay projection, not called
TaxIdle ==
    /\ tax_gross = <<>>
    /\ tax_pension = 0
    /\ tax_out = <<>>
    /\ pa_out = <<>>

PayIdle ==
    /\ pay_in = <<>>
    /\ pay_out = <<>>

Init ==
    /\ ParamInit(1)
    /\ seed = DefaultSeed
    /\ TaxIdle
    /\ PayIdle

Next ==
    \/ Enter
    \/ ClampCounts
    \/ PickTarget
    \/ BuildWeights
    \/ BeginTrial
    \/ BeginMonth
    \/ DrawAny
    \/ StopEarly
    \/ ShiftsDone
    \/ EndMonth
    \/ EndTrial
    \/ Return

vars == <<simvars, taxvars, payvars>>

Spec == Init /\ [][Next]_vars

\* ------------------------------------------------- the call, made twice
\* The caller (lines 414-424) calls again with the arguments it called with
\* first, keeping the first call's return value.
CallAgain ==
    /\ pc = "done"
    /\ call = 1
    /\ call' = 2
    /\ first_results' = results
    /\ opt_out_count' = args.opt_out_count
    /\ keen_count' = args.keen_count
    /\ person_type' = args.person_type
    /\ rng' = Unbound
    /\ total_shifts' = Unbound
    /\ target_index' = Unbound
    /\ weights' = <<>>
    /\ cap_per_person' = Unbound
    /\ results' = <<>>
    /\ sim' = 0
    /\ monthly_counts' = EmptyList
    /\ m' = 0
    /\ counts' = <<>>
    /\ shift' = 0
    /\ pc' = "enter"
    /\ UNCHANGED fixed

\* pools within range, with every trial count and several seeds
DetInit ==
    /\ ParamInit(MaxSims)
    /\ ValidRange(args.opt_out_count, args.keen_count, n_staff)
    /\ seed \in {DefaultSeed} \cup (0 .. MaxSeed)
    /\ TaxIdle
    /\ PayIdle

DetNext ==
    \/ Enter
    \/ ClampCounts
    \/ PickTarget
    \/ BuildWeights
    \/ BeginTrial
    \/ BeginMonth
    \/ DrawSeeded
    \/ StopEarly
    \/ ShiftsDone
    \/ EndMonth
    \/ EndTrial
    \/ Return
    \/ CallAgain

DetSpec == DetInit /\ [][DetNext]_vars

\* the simulator, not called
SimIdle ==
    /\ args = <<>>
    /\ n_staff = 0
    /\ staff_required_per_sunday = 0
    /\ keen_weight = 0
    /\ normal_weight = 0
    /\ n_sims = 0
    /\ seed = 0
    /\ opt_out_count = 0
    /\ keen_count = 0
    /\ person_type = ""
    /\ rng = Unbound
    /\ total_shifts = Unbound
    /\ target_index = Unbound
    /\ weights = <<>>
    /\ cap_per_person = Unbound
    /\ results = <<>>
    /\ sim = 0
    /\ monthly_counts = EmptyList
    /\ m = 0
    /\ counts = <<>>
    /\ shift = 0
    /\ pc = "idle"
    /\ call = 0
    /\ first_results = <<>>

\* ---------------------------------------------------------------- tax model
\* Amounts are in half pounds (HalfPounds(x) of x pounds), so that the taper
\* (income - 100,000) / 2 of a whole-pound income is a whole number; the tax
\* due is in hundredths of a half pound, so that 20%, 40% and 45% are whole.
HalfPounds(x) == 2 * x

FullAllowance == 12570
TaperStart == 100000
TaperEnd == 125140
BasicBand == 37700
BasicRate == 20
HigherRate == 40
AdditionalRate == 45

\* personal_allowance with the full allowance returned above the taper
personal_allowance_restored(adjusted_net_income) ==
    LET pa == HalfPounds(FullAllowance)
    IN  IF adjusted_net_income <= HalfPounds(TaperStart) THEN pa
        ELSE IF adjusted_net_income >= HalfPounds(TaperEnd) THEN pa
        ELSE LET reduction == (adjusted_net_income - HalfPounds(TaperStart)) \div 2
             IN  Max(0, pa - reduction)

personal_allowance(adjusted_net_income) ==
    LET pa == HalfPounds(FullAllowance)
    IN  IF adjusted_net_income <= HalfPounds(TaperStart) THEN pa
        ELSE IF adjusted_net_income >= HalfPounds(TaperEnd) THEN 0
        ELSE LET reduction == (adjusted_net_income - HalfPounds(TaperStart)) \div 2
             IN  Max(0, pa - reduction)

\* income_tax_ruk with the higher-band tax assigned instead of added
income_tax_ruk_assigned(annual_gross, pension_deduction) ==
    LET adjusted == Max(0, annual_gross - pension_deduction)
        pa == personal_allowance(adjusted)
        taxable == Max(0, adjusted - pa)
        basic_band == HalfPounds(BasicBand)
        higher_limit == HalfPounds(TaperEnd) - pa
        b == Min(taxable, basic_band)
        tax1 == BasicRate * b
        remaining1 == taxable - b
        h_band == IF remaining1 > 0
                  THEN Max(0, Min(remaining1, Max(0, higher_limit - basic_band)))
                  ELSE 0
        tax2 == IF remaining1 > 0 THEN HigherRate * h_band ELSE tax1
        remaining2 == remaining1 - h_band
        tax3 == IF remaining2 > 0 THEN tax2 + AdditionalRate * remaining2 ELSE tax2
    IN  [taxable_income |-> taxable,
         income_tax |-> tax3,
         employee_ni |-> 0,
         personal_allowance_used |-> pa]

income_tax_ruk(annual_gross, pension_deduction) ==
    LET adjusted == Max(0, annual_gross - pension_deduction)
        pa == personal_allowance(adjusted)
        taxable == Max(0, adjusted - pa)
        basic_band == HalfPounds(BasicBand)
        higher_limit == HalfPounds(TaperEnd) - pa
        b == Min(taxable, basic_band)
        tax1 == BasicRate * b
        remaining1 == taxable - b
        h_band == IF remaining1 > 0
                  THEN Max(0, Min(remaining1, Max(0, higher_limit - basic_band)))
                  ELSE 0
        tax2 == tax1 + HigherRate * h_band
        remaining2 == remaining1 - h_band
        tax3 == IF remaining2 > 0 THEN tax2 + AdditionalRate * remaining2 ELSE tax2
    IN  [taxable_income |-> taxable,
         income_tax |-> tax3,
         employee_ni |-> 0,
         personal_allowance_used |-> pa]

\* the incomes the functions are applied to, in pounds: a grid, and the
\* neighbourhood of every threshold of the model
GridStep == 5000
MaxGrid == 30
MaxDelta == 2
Thresholds == {0, FullAllowance, BasicBand + FullAllowance, TaperStart, TaperEnd}
Incomes ==
    {k * GridStep : k \in -1 .. MaxGrid}
        \cup {t + d : t \in Thresholds, d \in (-MaxDelta) .. MaxDelta}
Pensions == {0, FullAllowance, 2 * GridStep + 1}

TaxInit ==
    /\ tax_gross \in {g \in Incomes \X Incomes : g[1] <= g[2]}
    /\ tax_pension \in Pensions
    /\ tax_out = <<>>
    /\ pa_out = <<>>
    /\ SimIdle
    /\ PayIdle

\* income_tax_ruk applied to the next of the two incomes
IncomeTaxCall ==
    /\ Len(tax_out) < 2
    /\ tax_out' = Append(tax_out,
                         income_tax_ruk(HalfPounds(tax_gross[Len(tax_out) + 1]),
                                        HalfPounds(tax_pension)))
    /\ UNCHANGED <<tax_gross, tax_pension, pa_out, simvars, payvars>>

\* personal_allowance applied to the next of the two incomes
AllowanceCall ==
    /\ Len(pa_out) < 2
    /\ pa_out' = Append(pa_out,
                        personal_allowance(HalfPounds(tax_gross[Len(pa_out) + 1])))
    /\ UNCHANGED <<tax_gross, tax_pension, tax_out, simvars, payvars>>

TaxNext ==
    \/ IncomeTaxCall
    \/ AllowanceCall

TaxSpec == TaxInit /\ [][TaxNext]_vars

\* ----------------------------------------------------------- pay projection
\* Inputs: hourly rates in pence, Sundays per month in quarters, hours per
\* bank Sunday in quarter hours, the pension rate in thousandths, leave weeks
\* in halves.  Outputs: base, bank-Sunday and gross pay in 1/104,000 pound;
\* new-Sunday pay and leave uplift in 3/52,000 pound (six of the former);
\* pension in thousandths of 3/52,000 pound.  In these units every amount the
\* function computes is a whole number.
CONTRACTED_HOURS_PER_WEEK_TENTHS == 375
WEEKS_PER_YEAR == 52
NEW_SUNDAY_HOURS == 12
SUNDAY_UPLIFT_TENTHS == 6
MaxSundayQuarters == 3
MaxBankQuarters == 2

\* BANDS: base hourly rate and bank Sunday rate, in pence
BandRates ==
    {[base |-> 2044, bank |-> 4470], [base |-> 2157, bank |-> 4470],
     [base |-> 2461, bank |-> 4470], [base |-> 2526, bank |-> 5148],
     [base |-> 2656, bank |-> 5148], [base |-> 2890, bank |-> 5148]}

\* hourly * 37.5 * 52 / 12, in 1/104,000 pound
calc_base_monthly(hourly) ==
    hourly * ((CONTRACTED_HOURS_PER_WEEK_TENTHS * WEEKS_PER_YEAR * 104) \div 12)

\* bank_sundays_per_month * bank_hours * bank_rate, in 1/104,000 pound
calc_current_bank_monthly(bank_sundays_per_month, bank_hours, bank_rate) ==
    bank_sundays_per_month * bank_hours * bank_rate * (104000 \div (4 * 4 * 100))

\* new_sundays_per_month * 12 * base_hourly * 1.6, in 3/52,000 pound
calc_new_sundays_monthly(new_sundays_per_month, base_hourly) ==
    new_sundays_per_month * base_hourly
        * ((NEW_SUNDAY_HOURS * (10 + SUNDAY_UPLIFT_TENTHS) * 52000) \div (4 * 100 * 10 * 3))

\* ((new_sundays * 12) * (12 * base * 0.6) / 52) * leave_weeks / 12, in 3/52,000 pound
calc_annual_leave_uplift_monthly(new_sundays_per_month, base_hourly, annual_leave_weeks) ==
    new_sundays_per_month * base_hourly * annual_leave_weeks
        * ((12 * NEW_SUNDAY_HOURS * SUNDAY_UPLIFT_TENTHS * 52000)
              \div (4 * 100 * 10 * WEEKS_PER_YEAR * 2 * 12 * 3))

\* compute_monthly_takehome with bank Sunday pay treated as pensionable
compute_monthly_takehome_bank_pensionable(in) ==
    LET base_monthly == calc_base_monthly(in.base_hourly)
        current_weekend_monthly ==
            calc_current_bank_monthly(in.bank_sundays_per_month, in.bank_hours,
                                      in.bank_rate)
        new_weekend_monthly ==
            calc_new_sundays_monthly(in.new_sundays_per_month, in.base_hourly)
        leave_uplift_monthly ==
            IF in.include_leave_uplift
            THEN calc_annual_leave_uplift_monthly(in.new_sundays_per_month,
                                                  in.base_hourly,
                                                  in.annual_leave_weeks)
            ELSE 0
    IN  [base_monthly |-> base_monthly,
         current_weekend_monthly |-> current_weekend_monthly,
         new_weekend_monthly |-> new_weekend_monthly,
         leave_uplift_monthly |-> leave_uplift_monthly,
         current_gross_monthly |-> base_monthly + current_weekend_monthly,
         new_gross_monthly |->
             base_monthly + 6 * new_weekend_monthly + 6 * leave_uplift_monthly,
         current_pension_monthly |->
             in.pension_rate * (current_weekend_monthly \div 6),
         new_pension_monthly |->
             in.pension_rate * (new_weekend_monthly + leave_uplift_monthly)]

\* lines 90-108 and the fields of the returned dict they set; the annualised
\* and after-tax fields (lines 110-120) are 12 times these and
\* tax_and_ni_ruk of that, and feed nothing back into these
compute_monthly_takehome(in) ==
    LET base_monthly == calc_base_monthly(in.base_hourly)
        current_weekend_monthly ==
            calc_current_bank_monthly(in.bank_sundays_per_month, in.bank_hours,
                                      in.bank_rate)
        new_weekend_monthly ==
            calc_new_sundays_monthly(in.new_sundays_per_month, in.base_hourly)
        leave_uplift_monthly ==
            IF in.include_leave_uplift
            THEN calc_annual_leave_uplift_monthly(in.new_sundays_per_month,
                                                  in.base_hourly,
                                                  in.annual_leave_weeks)
            ELSE 0
    IN  [base_monthly |-> base_monthly,
         current_weekend_monthly |-> current_weekend_monthly,
         new_weekend_monthly |-> new_weekend_monthly,
         leave_uplift_monthly |-> leave_uplift_monthly,
         current_gross_monthly |-> base_monthly + current_weekend_monthly,
         new_gross_monthly |->
             base_monthly + 6 * new_weekend_monthly + 6 * leave_uplift_monthly,
         current_pension_monthly |-> 0,
         new_pension_monthly |->
             in.pension_rate * (new_weekend_monthly + leave_uplift_monthly)]

\* the scenarios the sidebar (lines 262-284) can pass, on a coarse grid
PayScenarios ==
    {[base_hourly |-> r.base,
      bank_rate |-> r.bank,
      bank_sundays_per_month |-> bs,
      bank_hours |-> bh,
      new_sundays_per_month |-> ns,
      pension_rate |-> pr,
      include_leave_uplift |-> lu,
      annual_leave_weeks |-> lw] :
        r \in BandRates, bs \in 0 .. MaxBankQuarters, bh \in {24, 42, 48},
        ns \in 0 .. MaxSundayQuarters, pr \in {0, 107, 200}, lu \in BOOLEAN,
        lw \in {8, 13, 16}}

PayInit ==
    /\ pay_in \in PayScenarios
    /\ pay_out = <<>>
    /\ SimIdle
    /\ TaxIdle

ComputeMonthlyTakehome ==
    /\ pay_out = <<>>
    /\ pay_out' = compute_monthly_takehome(pay_in)
    /\ UNCHANGED <<pay_in, simvars, taxvars>>

PayNext == ComputeMonthlyTakehome

PaySpec == PayInit /\ [][PayNext]_vars

\* ------------------------------------------------------------------ claims
Built == pc \notin {"idle", "enter", "clamp", "pick", "weights"}
InMonth == counts # <<>>
Total(c) == SumOver(c, DOMAIN c)

\* C1: every opt-out worker (index below opt_out_count) has an allocated shift
\* count of 0 at every point of every month of every trial; when the
\* representative is an opt-out worker, every recorded month and every trial
\* outcome is 0.
C1_OptOutNeverAllocated ==
    /\ InMonth => \A i \in DOMAIN counts : i < opt_out_count => counts[i] = 0
    /\ (Built /\ target_index < opt_out_count) =>
          /\ monthly_counts.sum = 0
          /\ \A i \in DOMAIN results : results[i] = 0

C1_Witness ==
    /\ pc = "done"
    /\ n_sims >= 2
    /\ target_index < opt_out_count
    /\ \E j \in DOMAIN counts : counts[j] > 0

\* C2 as stated: at the end of a month in which no worker reached the cap,
\* the allocated shifts sum to the monthly quota, the integer nearest to
\* 13R/3, for every pool.
C2_Original ==
    (pc = "month_end" /\ \A i \in DOMAIN counts : counts[i] < cap_per_person) =>
        (3 * Total(counts) - 13 * staff_required_per_sunday) \in -1 .. 1

\* C2 amended: the same, for pools in which some worker has positive weight.
C2_QuotaMetBelowCap ==
    (/\ pc = "month_end"
     /\ \E i \in DOMAIN weights : weights[i] > 0
     /\ \A i \in DOMAIN counts : counts[i] < cap_per_person) =>
        (3 * Total(counts) - 13 * staff_required_per_sunday) \in -1 .. 1

C2_Witness ==
    /\ pc = "month_end"
    /\ staff_required_per_sunday > 0
    /\ \E i \in DOMAIN weights : weights[i] > 0
    /\ \A i \in DOMAIN counts : counts[i] < cap_per_person

\* C4: only workers of positive weight are allocated shifts, and a worker is
\* above the cap min(quota, 4) only when every worker of positive weight has
\* reached it.
C4_CapRelaxedOnlyWhenAllCapped ==
    InMonth =>
        /\ cap_per_person = (IF total_shifts < 4 THEN total_shifts ELSE 4)
        /\ \A i \in DOMAIN counts : counts[i] > 0 => weights[i] > 0
        /\ (\E i \in DOMAIN counts : counts[i] > cap_per_person) =>
              \A j \in DOMAIN counts : weights[j] > 0 => counts[j] >= cap_per_person

C4_Witness ==
    /\ InMonth
    /\ \E i, j \in DOMAIN counts :
          /\ i # j
          /\ counts[i] > cap_per_person
          /\ counts[j] = cap_per_person

\* C5: with no worker of positive weight the run does not fail: no shift is
\* allocated, every month records 0, the run goes on to its return with
\* n_sims outcomes, all 0.
C5_DegenerateRunsToZero ==
    (Built /\ \A i \in DOMAIN weights : weights[i] <= 0) =>
        /\ pc # "error"
        /\ pc # "done" => ENABLED Next
        /\ InMonth => \A i \in DOMAIN counts : counts[i] = 0
        /\ pc = "shift" => shift = 0
        /\ monthly_counts.sum = 0
        /\ Len(results) = n_sims
        /\ \A i \in DOMAIN results : results[i] = 0
        /\ pc = "done" => sim = n_sims

C5_Witness ==
    /\ pc = "done"
    /\ \A i \in DOMAIN weights : weights[i] <= 0
    /\ total_shifts > 0
    /\ n_sims >= 2
    /\ sim = n_sims

\* C6 as stated: a call whose opt-out or keen count is out of range does not
\* return an outcome sequence.
C6_Original ==
    pc = "done" => ValidRange(args.opt_out_count, args.keen_count, n_staff)

\* C6 amended: out-of-range counts are clamped, not rejected: the opt-out
\* count into 0..N, the keen count into 0..N - opt-out; counts within range
\* are kept; the call returns n_sims outcomes.
C6_ClampedNotRejected ==
    /\ pc # "error"
    /\ pc \notin {"enter", "clamp"} =>
          /\ opt_out_count = IF args.opt_out_count < 0 THEN 0
                              ELSE IF args.opt_out_count > n_staff THEN n_staff
                              ELSE args.opt_out_count
          /\ keen_count = IF args.keen_count < 0 THEN 0
                           ELSE IF args.keen_count > n_staff - opt_out_count
                                THEN n_staff - opt_out_count
                           ELSE args.keen_count
          /\ ValidRange(opt_out_count, keen_count, n_staff)
    /\ pc = "done" => Len(results) = n_sims

C6_Witness ==
    /\ pc = "done"
    /\ ~ValidRange(args.opt_out_count, args.keen_count, n_staff)
    /\ n_sims >= 1
    /\ results[1] > 0

\* C7: the representative is index 0 when opt-out is requested and there are
\* opt-out workers, the first keen index when keen is requested and there are
\* keen workers, and otherwise the first normal worker if any, else the first
\* keen worker if any, else index 0; it is always an index of the pool.
C7_Expected ==
    LET req == args.person_type
        normal == n_staff - opt_out_count - keen_count
    IN  IF req = "Opt-out (does none)" /\ opt_out_count > 0 THEN 0
        ELSE IF req = "Keen (picks up extras)" /\ keen_count > 0 THEN opt_out_count
        ELSE IF normal > 0 THEN opt_out_count + keen_count
        ELSE IF keen_count > 0 THEN opt_out_count
        ELSE 0

C8_TaxMonotone ==
    (Len(tax_out) = 2 /\ tax_gross[1] <= tax_gross[2]) =>
        tax_out[1].income_tax <= tax_out[2].income_tax

C8_Witness ==
    /\ Len(tax_out) = 2
    /\ tax_gross[1] - tax_pension > TaperStart
    /\ tax_gross[1] - tax_pension < TaperEnd
    /\ tax_gross[2] - tax_pension > TaperEnd
    /\ tax_out[1].personal_allowance_used > 0
    /\ tax_out[1].income_tax < tax_out[2].income_tax

\* C9: the allowance does not increase with income, is 12,570 up to 100,000
\* and 0 from 125,140, lies in 0..12,570, and between the two falls by half
\* a pound per pound of income.
C9_AllowanceTaper ==
    Len(pa_out) = 2 =>
        /\ tax_gross[1] <= tax_gross[2] => pa_out[1] >= pa_out[2]
        /\ \A k \in 1 .. 2 :
              /\ tax_gross[k] <= 100000 => pa_out[k] = 2 * 12570
              /\ tax_gross[k] >= 125140 => pa_out[k] = 0
              /\ pa_out[k] >= 0
              /\ pa_out[k] <= 2 * 12570
        /\ (\A k \in 1 .. 2 : tax_gross[k] >= 100000 /\ tax_gross[k] <= 125140) =>
              pa_out[1] - pa_out[2] = tax_gross[2] - tax_gross[1]

C9_Witness ==
    /\ Len(pa_out) = 2
    /\ tax_gross[1] > 100000
    /\ tax_gross[1] < tax_gross[2]
    /\ tax_gross[2] < 125140
    /\ pa_out[1] > pa_out[2]
    /\ pa_out[2] > 0

\* C10: the returned current_pension_monthly is 0 and new_pension_monthly is
\* not negative and equals the pension rate times the sum of the returned
\* new_weekend_monthly and leave_uplift_monthly, the latter being 0 when the
\* leave-uplift flag is off.
C10_PensionFields ==
    pay_out # <<>> =>
        /\ pay_out.current_pension_monthly = 0
        /\ pay_out.new_pension_monthly >= 0
        /\ pay_out.new_pension_monthly =
              pay_in.pension_rate
                  * (pay_out.new_weekend_monthly + pay_out.leave_uplift_monthly)
        /\ ~pay_in.include_leave_uplift => pay_out.leave_uplift_monthly = 0

C10_Witness ==
    /\ pay_out # <<>>
    /\ pay_in.include_leave_uplift
    /\ pay_in.bank_sundays_per_month > 0
    /\ pay_out.current_weekend_monthly > 0
    /\ pay_out.leave_uplift_monthly > 0
    /\ pay_out.new_pension_monthly > 0

\* C11: when some worker has positive weight, every iteration of the shift
\* loop allocates exactly one shift, the loop does not stop early, and every
\* month ends with the allocated shifts summing to the monthly quota, the
\* integer nearest to 13R/3, also in months in which the cap was relaxed.
C11_QuotaAlwaysMet ==
    (InMonth /\ \E i \in DOMAIN weights : weights[i] > 0) =>
        /\ pc = "shift" => Total(counts) = shift
        /\ pc = "month_end" =>
              /\ shift = total_shifts
              /\ (3 * Total(counts) - 13 * staff_required_per_sunday) \in -1 .. 1

C11_Witness ==
    /\ pc = "month_end"
    /\ \E i \in DOMAIN counts : counts[i] > cap_per_person
    /\ Total(counts) = total_shifts
    /\ total_shifts > 0

====
